---------------------------- MODULE Spec2Model ----------------------------
(***************************************************************************)
(* Model of generateCsv.py: a script that opens test_large.csv for         *)
(* writing, generates record_count random records, writes each one as a    *)
(* semicolon-delimited line through csv.writer, closes the file when the   *)
(* with block is left and prints a completion message.                     *)
(*                                                                         *)
(* Text is modelled as a sequence of one-character strings, so formatting  *)
(* (str of an integer, strftime, the csv dialect) is computed character    *)
(* by character.  The file object returned by open() buffers what is       *)
(* written to it: `buffer' holds the characters accepted but not yet       *)
(* handed to the operating system, `disk' the content of the file.         *)
(***************************************************************************)
EXTENDS Integers, Sequences, FiniteSets, TLC

(***************************************************************************)
(* Bounds of the model.                                                    *)
(***************************************************************************)
\* range(1_000_000) of line 7, scaled down: record_count is 0..MaxRecords.
MaxRecords == 2
\* How many times the script is run in sequence against the same path.
MaxRuns == 2
\* The operating system accepts text from f in blocks of this many
\* characters: a write that fails part-way stops at a block boundary.
BlockSize == 16

(***************************************************************************)
(* Literals of the program.                                                *)
(***************************************************************************)
EpochYear == 2000
EpochMonth == 1
EpochDay == 1
DayOffsetMin == 0
DayOffsetMax == 8000
NameMin == 1
NameMax == 1000000
CityMin == 1
CityMax == 1000
CountryMin == 1
CountryMax == 100

Delimiter == ";"
QuoteChar == "\""
CR == "\r"
LF == "\n"
\* csv.writer's default lineterminator; open(newline='') does not translate it.
LineTerminator == <<CR, LF>>

NamePrefix == <<"N", "a", "m", "e">>
SurnamePrefix == <<"S", "u", "r", "n", "a", "m", "e">>
PatronymicPrefix == <<"P", "a", "t", "r", "o", "n", "y", "m", "i", "c">>
CityPrefix == <<"C", "i", "t", "y">>
CountryPrefix == <<"C", "o", "u", "n", "t", "r", "y">>

\* The text print() emits on line 16 (transliterated to ASCII).
CompletionMessage == "CSV fajl sozdan."

(***************************************************************************)
(* Text helpers.                                                           *)
(***************************************************************************)
DigitChars == <<"0", "1", "2", "3", "4", "5", "6", "7", "8", "9">>

\* str(n) of a non-negative integer, as the f-string {…} renders it.
RECURSIVE IntToStr(_)
IntToStr(n) ==
    IF n < 10 THEN <<DigitChars[n + 1]>>
    ELSE IntToStr(n \div 10) \o <<DigitChars[(n % 10) + 1]>>

\* A number zero-padded on the left to at least w digits (%Y, %m, %d).
RECURSIVE ZeroPad(_, _)
ZeroPad(s, w) == IF Len(s) >= w THEN s ELSE ZeroPad(<<"0">> \o s, w)

(***************************************************************************)
(* datetime(2000,1,1) + timedelta(days=n), and strftime("%Y-%m-%d").       *)
(***************************************************************************)
IsLeap(y) == (y % 4 = 0) /\ ((y % 100 # 0) \/ (y % 400 = 0))

DaysInYear(y) == IF IsLeap(y) THEN 366 ELSE 365

DaysInMonth(y, m) ==
    IF m = 2 THEN (IF IsLeap(y) THEN 29 ELSE 28)
    ELSE IF m \in {4, 6, 9, 11} THEN 30
    ELSE 31

RECURSIVE DaysBeforeMonth(_, _)
DaysBeforeMonth(y, m) ==
    IF m = 1 THEN 0 ELSE DaysBeforeMonth(y, m - 1) + DaysInMonth(y, m - 1)

\* The date that is k days (k >= 0) after the first of month m of year y.
RECURSIVE FromMonthDay(_, _, _)
FromMonthDay(y, m, k) ==
    IF k >= DaysInMonth(y, m) THEN FromMonthDay(y, m + 1, k - DaysInMonth(y, m))
    ELSE [year |-> y, month |-> m, day |-> k + 1]

\* The date that is k days (k >= 0) after the first of January of year y.
RECURSIVE FromYearDay(_, _)
FromYearDay(y, k) ==
    IF k >= DaysInYear(y) THEN FromYearDay(y + 1, k - DaysInYear(y))
    ELSE FromMonthDay(y, 1, k)

\* Mutant: the day of the month counted from zero.
AddDaysFromDayZero(d, n) ==
    FromYearDay(d.year, DaysBeforeMonth(d.year, d.month) + d.day + n)

\* datetime + timedelta(days=n) for n >= 0.
AddDays(d, n) ==
    FromYearDay(d.year, DaysBeforeMonth(d.year, d.month) + (d.day - 1) + n)

Epoch == [year |-> EpochYear, month |-> EpochMonth, day |-> EpochDay]

\* date.strftime("%Y-%m-%d")
Strftime(d) ==
    ZeroPad(IntToStr(d.year), 4) \o <<"-">> \o ZeroPad(IntToStr(d.month), 2)
        \o <<"-">> \o ZeroPad(IntToStr(d.day), 2)

(***************************************************************************)
(* csv.writer(f, delimiter=';').writerow: the excel dialect with minimal   *)
(* quoting.  A field is quoted when it holds the delimiter, the quote      *)
(* character or a line-break character; quotes inside it are doubled.      *)
(***************************************************************************)
NeedsQuote(s) ==
    \E k \in 1..Len(s) : s[k] \in {Delimiter, QuoteChar, CR, LF}

RECURSIVE DoubleQuotes(_)
DoubleQuotes(s) ==
    IF s = <<>> THEN <<>>
    ELSE (IF Head(s) = QuoteChar THEN <<QuoteChar, QuoteChar>> ELSE <<Head(s)>>)
             \o DoubleQuotes(Tail(s))

\* Mutant: every field quoted (QUOTE_ALL).
FormatFieldQuoteAll(s) == <<QuoteChar>> \o DoubleQuotes(s) \o <<QuoteChar>>

FormatField(s) ==
    IF NeedsQuote(s) THEN <<QuoteChar>> \o DoubleQuotes(s) \o <<QuoteChar>>
    ELSE s

RECURSIVE JoinFields(_)
JoinFields(fields) ==
    IF Len(fields) = 0 THEN <<>>
    ELSE IF Len(fields) = 1 THEN FormatField(fields[1])
    ELSE FormatField(fields[1]) \o <<Delimiter>> \o JoinFields(Tail(fields))

\* The text writerow hands to f.write for one row.
FormatRow(fields) == JoinFields(fields) \o LineTerminator

(***************************************************************************)
(* Lines 8-14: one record from six draws of the random source.             *)
(* A draw tuple is <<day offset, k1, k2, k3, k4, k5>>.                     *)
(***************************************************************************)
MakeRecord(d) ==
    [date    |-> AddDays(Epoch, d[1]),
     first   |-> NamePrefix \o IntToStr(d[2]),
     last    |-> SurnamePrefix \o IntToStr(d[3]),
     sur     |-> PatronymicPrefix \o IntToStr(d[4]),
     city    |-> CityPrefix \o IntToStr(d[5]),
     country |-> CountryPrefix \o IntToStr(d[6])]

\* Mutant: city and country in each other's column.
RowFieldsCitySwapped(r) ==
    <<Strftime(r.date), r.first, r.last, r.sur, r.country, r.city>>

\* The list passed to writer.writerow on line 14.
RowFields(r) ==
    <<Strftime(r.date), r.first, r.last, r.sur, r.city, r.country>>


(***************************************************************************)
(* The random source.  random.randint(a, b) returns any integer of the     *)
(* closed range a..b.  A run of the model draws whole tuples from a small  *)
(* set of them; the record-level specification draws from wide sets.       *)
(***************************************************************************)
randint(a, b) == a..b

\* The scenario of six draws 0, 42, 42, 42, 42, 42.
ExampleDraw == <<0, 42, 42, 42, 42, 42>>

LowDraw == <<DayOffsetMin, NameMin, NameMin, NameMin, CityMin, CountryMin>>

HighDraw == <<DayOffsetMax, NameMax, NameMax, NameMax, CityMax, CountryMax>>

\* Every draw at one end of its range except the day offset, at the other.
MixedDraws ==
    {[LowDraw EXCEPT ![1] = DayOffsetMax], [HighDraw EXCEPT ![1] = DayOffsetMin]}

\* The tuples a run of the model draws from.
EdgeDraws == {LowDraw, HighDraw, ExampleDraw} \cup MixedDraws

\* The values of a..b where the number of decimal digits changes, and its ends.
DigitEdges(a, b) ==
    {a, b} \cup {x \in {9, 10, 99, 100, 999, 1000, 9999, 10000, 99999, 100000,
                        999999, 1000000, 9999999, 10000000} : a <= x /\ x <= b}

\* Every day offset; every combination of name numbers at the digit edges;
\* every city number; every country number; every corner of the six ranges.
DayDraws ==
    {[ExampleDraw EXCEPT ![1] = n] : n \in randint(DayOffsetMin, DayOffsetMax)}

NameDraws ==
    {<<0, a, b, c, 42, 42>> : a \in DigitEdges(NameMin, NameMax),
                              b \in DigitEdges(NameMin, NameMax),
                              c \in DigitEdges(NameMin, NameMax)}

CityDraws ==
    {<<0, 42, 42, 42, c, k>> : c \in randint(CityMin, CityMax),
                               k \in {CountryMin, CountryMax}}

CountryDraws ==
    {<<0, 42, 42, 42, c, k>> : c \in {CityMin, CityMax},
                               k \in randint(CountryMin, CountryMax)}

CornerDraws ==
    {<<n, a, b, c, x, y>> : n \in {DayOffsetMin, DayOffsetMax},
                            a \in {NameMin, NameMax}, b \in {NameMin, NameMax},
                            c \in {NameMin, NameMax}, x \in {CityMin, CityMax},
                            y \in {CountryMin, CountryMax}}

WideDraws == DayDraws \cup NameDraws \cup CityDraws \cup CountryDraws \cup CornerDraws

(***************************************************************************)
(* State.                                                                  *)
(***************************************************************************)
VARIABLES
    pc,            \* where the script is: "open", "for", "write", "exit",
                   \* "print", "done" (exit status 0), "aborted" (traceback)
    record_count,  \* the argument of range() on line 7
    i,             \* the loop index: rows handed to writerow and accepted
    rec,           \* date, first, last, sur, city, country of lines 8-13
    handle,        \* the file object f: "none", "open", "closed"
    buffer,        \* characters f accepted and has not flushed yet
    disk,          \* content of test_large.csv
    stdout,        \* what this run printed
    error,         \* the call whose OSError is propagating or ended the run
    drawn,         \* history: the draw tuples of this run, in order
    opens,         \* history: successful open() calls of this run
    closes,        \* history: times f was closed in this run
    writes,        \* history: writerow calls of this run
    run,           \* which run of the script this is, 1..MaxRuns
    overwrote      \* history: open() of this run replaced a non-empty file

vars == <<pc, record_count, i, rec, handle, buffer, disk, stdout, error,
          drawn, opens, closes, writes, run, overwrote>>

NoRecord == <<>>

\* The state of a freshly started interpreter; the file system is kept.
ProcessStart ==
    /\ pc = "open"
    /\ i = 0
    /\ rec = NoRecord
    /\ handle = "none"
    /\ buffer = <<>>
    /\ stdout = <<>>
    /\ error = "none"
    /\ drawn = <<>>
    /\ opens = 0
    /\ closes = 0
    /\ writes = 0
    /\ overwrote = FALSE

Init ==
    /\ ProcessStart
    /\ record_count \in 0..MaxRecords
    /\ disk = <<>>
    /\ run = 1

\* The first j characters of s, and the rest.
Take(s, j) == SubSeq(s, 1, j)

Drop(s, j) == SubSeq(s, j + 1, Len(s))

\* How many leading characters of s the operating system may take when f
\* hands it s: all of them, or whole blocks only.
Accepted(s) == {j \in 0..Len(s) : j = Len(s) \/ j % BlockSize = 0}

\* The same when the write fails: something of s is left behind.
AcceptedShort(s) == {j \in Accepted(s) : j < Len(s) \/ s = <<>>}

(***************************************************************************)
(* Line 5: open('test_large.csv', 'w', newline='', encoding='utf-8').      *)
(***************************************************************************)
\* Mutant: mode 'a', the file is kept and appended to.
OpenAppend ==
    /\ pc = "open"
    /\ handle' = "open"
    /\ opens' = opens + 1
    /\ overwrote' = (disk # <<>>)
    /\ buffer' = <<>>
    /\ pc' = "for"
    /\ UNCHANGED <<record_count, i, rec, disk, stdout, error, drawn, closes,
                   writes, run>>

\* Mode 'w' truncates the file; __enter__ binds f.
Open ==
    /\ pc = "open"
    /\ handle' = "open"
    /\ opens' = opens + 1
    /\ overwrote' = (disk # <<>>)
    /\ disk' = <<>>
    /\ buffer' = <<>>
    /\ pc' = "for"
    /\ UNCHANGED <<record_count, i, rec, stdout, error, drawn, closes, writes, run>>

\* open() raises OSError: no file object, the file is left as it was.
OpenFails ==
    /\ pc = "open"
    /\ error' = "open"
    /\ pc' = "aborted"
    /\ UNCHANGED <<record_count, i, rec, handle, buffer, disk, stdout, drawn,
                   opens, closes, writes, run, overwrote>>

(***************************************************************************)
(* Lines 7-13: the next iteration of the loop generates one record.        *)
(***************************************************************************)
\* Mutant: one iteration too many (range(record_count + 1)).
GenerateFromInclusive(S) ==
    /\ pc = "for"
    /\ i <= record_count
    /\ \E d \in S :
        /\ rec' = MakeRecord(d)
        /\ drawn' = Append(drawn, d)
    /\ pc' = "write"
    /\ UNCHANGED <<record_count, i, handle, buffer, disk, stdout, error,
                   opens, closes, writes, run, overwrote>>

GenerateFrom(S) ==
    /\ pc = "for"
    /\ i < record_count
    /\ \E d \in S :
        /\ rec' = MakeRecord(d)
        /\ drawn' = Append(drawn, d)
    /\ pc' = "write"
    /\ UNCHANGED <<record_count, i, handle, buffer, disk, stdout, error,
                   opens, closes, writes, run, overwrote>>

Generate == GenerateFrom(EdgeDraws)

GenerateWide == GenerateFrom(WideDraws)

\* Mutant: the loop stops one iteration early (range(record_count - 1)).
LoopExitEarly ==
    /\ pc = "for"
    /\ i + 1 >= record_count
    /\ pc' = "exit"
    /\ UNCHANGED <<record_count, i, rec, handle, buffer, disk, stdout, error,
                   drawn, opens, closes, writes, run, overwrote>>

\* Line 7: range(record_count) is exhausted; the with block is left normally.
LoopExit ==
    /\ pc = "for"
    /\ i >= record_count
    /\ pc' = "exit"
    /\ UNCHANGED <<record_count, i, rec, handle, buffer, disk, stdout, error,
                   drawn, opens, closes, writes, run, overwrote>>

(***************************************************************************)
(* Line 14: writer.writerow(...).  The row's text goes to the buffer of f; *)
(* f may hand a leading part of its buffer to the operating system.        *)
(***************************************************************************)
WriteRow ==
    /\ pc = "write"
    /\ LET pending == buffer \o FormatRow(RowFields(rec))
       IN \E j \in Accepted(pending) :
            /\ disk' = disk \o Take(pending, j)
            /\ buffer' = Drop(pending, j)
    /\ writes' = writes + 1
    /\ i' = i + 1
    /\ pc' = "for"
    /\ UNCHANGED <<record_count, rec, handle, stdout, error, drawn, opens,
                   closes, run, overwrote>>

\* Mutant: no with block, the exception ends the script with f still open.
WriteRowFailsLeaks ==
    /\ pc = "write"
    /\ LET pending == buffer \o FormatRow(RowFields(rec))
       IN \E j \in AcceptedShort(pending) :
            /\ disk' = disk \o Take(pending, j)
            /\ buffer' = Drop(pending, j)
    /\ writes' = writes + 1
    /\ error' = "write"
    /\ pc' = "aborted"
    /\ UNCHANGED <<record_count, i, rec, handle, stdout, drawn, opens,
                   closes, run, overwrote>>

\* Mutant: the OSError is caught and the loop goes on with the next record.
WriteRowFailsGoesOn ==
    /\ pc = "write"
    /\ LET pending == buffer \o FormatRow(RowFields(rec))
       IN \E j \in AcceptedShort(pending) :
            /\ disk' = disk \o Take(pending, j)
            /\ buffer' = Drop(pending, j)
    /\ writes' = writes + 1
    /\ error' = "write"
    /\ i' = i + 1
    /\ pc' = "for"
    /\ UNCHANGED <<record_count, rec, handle, stdout, drawn, opens,
                   closes, run, overwrote>>

\* The operating system refuses part of what f hands it: OSError leaves
\* writerow, some leading part of the buffer may have reached the file.
WriteRowFails ==
    /\ pc = "write"
    /\ LET pending == buffer \o FormatRow(RowFields(rec))
       IN \E j \in AcceptedShort(pending) :
            /\ disk' = disk \o Take(pending, j)
            /\ buffer' = Drop(pending, j)
    /\ writes' = writes + 1
    /\ error' = "write"
    /\ pc' = "exit"
    /\ UNCHANGED <<record_count, i, rec, handle, stdout, drawn, opens,
                   closes, run, overwrote>>

(***************************************************************************)
(* Line 5, leaving the with block: f.__exit__ closes f, on the normal path *)
(* and with an exception propagating alike.  close() flushes the buffer    *)
(* and releases the descriptor even when the flush fails.                  *)
(***************************************************************************)
\* Mutant: close() without the flush, what is buffered is dropped.
ExitNoFlush ==
    /\ pc = "exit"
    /\ buffer' = <<>>
    /\ handle' = "closed"
    /\ closes' = closes + 1
    /\ pc' = IF error = "none" THEN "print" ELSE "aborted"
    /\ UNCHANGED <<record_count, i, rec, disk, stdout, error, drawn, opens,
                   writes, run, overwrote>>

\* Mutant: __exit__ swallows the exception, the script goes on to print.
ExitSwallows ==
    /\ pc = "exit"
    /\ disk' = disk \o buffer
    /\ buffer' = <<>>
    /\ handle' = "closed"
    /\ closes' = closes + 1
    /\ pc' = "print"
    /\ UNCHANGED <<record_count, i, rec, stdout, error, drawn, opens, writes,
                   run, overwrote>>

Exit ==
    /\ pc = "exit"
    /\ disk' = disk \o buffer
    /\ buffer' = <<>>
    /\ handle' = "closed"
    /\ closes' = closes + 1
    /\ pc' = IF error = "none" THEN "print" ELSE "aborted"
    /\ UNCHANGED <<record_count, i, rec, stdout, error, drawn, opens, writes,
                   run, overwrote>>

ExitFails ==
    /\ pc = "exit"
    /\ \E j \in AcceptedShort(buffer) : disk' = disk \o Take(buffer, j)
    /\ buffer' = <<>>
    /\ handle' = "closed"
    /\ closes' = closes + 1
    /\ error' = IF error = "none" THEN "close" ELSE error
    /\ pc' = "aborted"
    /\ UNCHANGED <<record_count, i, rec, stdout, drawn, opens, writes, run,
                   overwrote>>

(***************************************************************************)
(* Line 16: print(...), reached only when the with block ended normally.   *)
(***************************************************************************)
PrintDone ==
    /\ pc = "print"
    /\ stdout' = Append(stdout, CompletionMessage)
    /\ pc' = "done"
    /\ UNCHANGED <<record_count, i, rec, handle, buffer, disk, error, drawn,
                   opens, closes, writes, run, overwrote>>

(***************************************************************************)
(* The script is run again against the same path once a run has ended.     *)
(***************************************************************************)
Rerun ==
    /\ pc \in {"done", "aborted"}
    /\ run < MaxRuns
    /\ run' = run + 1
    /\ pc' = "open"
    /\ i' = 0
    /\ rec' = NoRecord
    /\ handle' = "none"
    /\ buffer' = <<>>
    /\ stdout' = <<>>
    /\ error' = "none"
    /\ drawn' = <<>>
    /\ opens' = 0
    /\ closes' = 0
    /\ writes' = 0
    /\ overwrote' = FALSE
    /\ UNCHANGED <<record_count, disk>>

Next ==
    \/ Open
    \/ OpenFails
    \/ Generate
    \/ LoopExit
    \/ WriteRow
    \/ WriteRowFails
    \/ Exit
    \/ ExitFails
    \/ PrintDone
    \/ Rerun

Spec == Init /\ [][Next]_vars

(***************************************************************************)
(* One run of a single record, its draws taken from the wide sets.         *)
(***************************************************************************)
InitRecord ==
    /\ ProcessStart
    /\ record_count = 1
    /\ disk = <<>>
    /\ run = 1

NextRecord ==
    \/ Open
    \/ OpenFails
    \/ GenerateWide
    \/ LoopExit
    \/ WriteRow
    \/ WriteRowFails
    \/ Exit
    \/ ExitFails
    \/ PrintDone

SpecRecord == InitRecord /\ [][NextRecord]_vars

(***************************************************************************)
(* Reading a file back: what a consumer of test_large.csv sees.  These     *)
(* operators parse text and do not use the operators that produced it.     *)
(***************************************************************************)
IsPrefix(a, b) == Len(a) <= Len(b) /\ SubSeq(b, 1, Len(a)) = a

Digits == {"0", "1", "2", "3", "4", "5", "6", "7", "8", "9"}

DigitValue(c) ==
    CASE c = "0" -> 0 [] c = "1" -> 1 [] c = "2" -> 2 [] c = "3" -> 3
      [] c = "4" -> 4 [] c = "5" -> 5 [] c = "6" -> 6 [] c = "7" -> 7
      [] c = "8" -> 8 [] c = "9" -> 9

AllDigits(s) == s # <<>> /\ \A k \in 1..Len(s) : s[k] \in Digits

\* A decimal numeral as str() writes one: digits, no leading zero.
IsNumeral(s) == AllDigits(s) /\ (Len(s) > 1 => s[1] # "0")

RECURSIVE ParseNat(_)
ParseNat(s) ==
    IF Len(s) = 1 THEN DigitValue(s[1])
    ELSE 10 * ParseNat(SubSeq(s, 1, Len(s) - 1)) + DigitValue(s[Len(s)])

\* s cut at every occurrence of the character c.
RECURSIVE SplitOn(_, _)
SplitOn(s, c) ==
    IF \A k \in 1..Len(s) : s[k] # c THEN <<s>>
    ELSE LET k == CHOOSE x \in 1..Len(s) :
                      s[x] = c /\ \A y \in 1..(x - 1) : s[y] # c
         IN <<SubSeq(s, 1, k - 1)>> \o SplitOn(SubSeq(s, k + 1, Len(s)), c)

\* The lines of a text that are ended by a line feed, without their line
\* break, and what follows the last line feed.
TerminatedLines(text) ==
    LET parts == SplitOn(text, "\n")
        strip(l) == IF l # <<>> /\ l[Len(l)] = "\r" THEN SubSeq(l, 1, Len(l) - 1)
                    ELSE l
    IN [k \in 1..(Len(parts) - 1) |-> strip(parts[k])]

TornTail(text) == LET parts == SplitOn(text, "\n") IN parts[Len(parts)]

FieldsOf(line) == SplitOn(line, ";")

\* Whether s is p followed by a numeral, and that numeral's value.
HasPrefix(s, p) == Len(s) > Len(p) /\ SubSeq(s, 1, Len(p)) = p

NumberAfter(s, p) == ParseNat(SubSeq(s, Len(p) + 1, Len(s)))

IsTagged(s, p) ==
    HasPrefix(s, p) /\ IsNumeral(SubSeq(s, Len(p) + 1, Len(s)))

\* YYYY-MM-DD
IsDateText(s) ==
    /\ Len(s) = 10
    /\ s[5] = "-"
    /\ s[8] = "-"
    /\ AllDigits(SubSeq(s, 1, 4))
    /\ AllDigits(SubSeq(s, 6, 7))
    /\ AllDigits(SubSeq(s, 9, 10))

DateOf(s) ==
    [year  |-> ParseNat(SubSeq(s, 1, 4)),
     month |-> ParseNat(SubSeq(s, 6, 7)),
     day   |-> ParseNat(SubSeq(s, 9, 10))]

\* The proleptic Gregorian calendar, in closed form.
GregorianLeap(y) == y % 4 = 0 /\ (y % 100 # 0 \/ y % 400 = 0)

MonthLengths(y) ==
    <<31, IF GregorianLeap(y) THEN 29 ELSE 28, 31, 30, 31, 30, 31, 31, 30, 31, 30, 31>>

IsCalendarDate(d) ==
    /\ d.year >= 1
    /\ d.month \in 1..12
    /\ d.day \in 1..MonthLengths(d.year)[d.month]

CumulativeDays == <<0, 31, 59, 90, 120, 151, 181, 212, 243, 273, 304, 334>>

\* Days from 0001-01-01 to d, plus one.
Ordinal(d) ==
    LET y == d.year - 1
    IN 365 * y + (y \div 4) - (y \div 100) + (y \div 400)
         + CumulativeDays[d.month]
         + (IF d.month > 2 /\ GregorianLeap(d.year) THEN 1 ELSE 0)
         + d.day

\* d1 is not after d2.
NotAfter(d1, d2) ==
    \/ d1.year < d2.year
    \/ d1.year = d2.year /\ d1.month < d2.month
    \/ d1.year = d2.year /\ d1.month = d2.month /\ d1.day <= d2.day

\* The text the rows of the draws ds make, in order.
RECURSIVE TextOf(_)
TextOf(ds) ==
    IF ds = <<>> THEN <<>>
    ELSE FormatRow(RowFields(MakeRecord(Head(ds)))) \o TextOf(Tail(ds))

\* Everything this run has handed to the file so far and not lost.
WrittenLines == TerminatedLines(disk \o buffer)

Ended == pc \in {"done", "aborted"}

(***************************************************************************)
(* Properties.                                                             *)
(***************************************************************************)

\* The date of line k is a calendar date in YYYY-MM-DD form, it is the epoch
\* date plus the k-th record's day offset, and it lies in [2000-01-01, last].
DateFieldWithin(k, last) ==
    LET field == FieldsOf(WrittenLines[k])[1]
    IN /\ IsDateText(field)
       /\ IsCalendarDate(DateOf(field))
       /\ Ordinal(DateOf(field))
              = Ordinal([year |-> 2000, month |-> 1, day |-> 1]) + drawn[k][1]
       /\ NotAfter([year |-> 2000, month |-> 1, day |-> 1], DateOf(field))
       /\ NotAfter(DateOf(field), last)

\* C1 as stated: field 1 of every line written is a valid calendar date
\* rendered as YYYY-MM-DD within [2000-01-01, 2021-11-17] inclusive.
C1_DateWithin_2021_11_17 ==
    \A k \in 1..Len(WrittenLines) :
        DateFieldWithin(k, [year |-> 2021, month |-> 11, day |-> 17])

\* C1 amended: field 1 of every line written is a valid calendar date
\* rendered as YYYY-MM-DD, equal to 2000-01-01 plus the drawn day offset,
\* within [2000-01-01, 2021-11-26] inclusive, for every offset in 0..8000.
C1_DateWithin_2021_11_26 ==
    \A k \in 1..Len(WrittenLines) :
        DateFieldWithin(k, [year |-> 2021, month |-> 11, day |-> 26])

\* A completed run whose record drew the largest day offset: its line is
\* dated 2021-11-26.
C1_Witness ==
    /\ pc = "done"
    /\ drawn # <<>>
    /\ drawn[1][1] = 8000
    /\ Len(TerminatedLines(disk)) = 1
    /\ FieldsOf(TerminatedLines(disk)[1])[1]
           = <<"2", "0", "2", "1", "-", "1", "1", "-", "2", "6">>

\* C3: fields 2 to 6 of every line written are Name<k1>, Surname<k2>,
\* Patronymic<k3>, City<k4>, Country<k5>, in this order, each number the one
\* drawn for that field, k1, k2, k3 in 1..1000000, k4 in 1..1000 and k5 in
\* 1..100.
C3_FieldsTaggedAndBounded ==
    \A k \in 1..Len(WrittenLines) :
        LET fs == FieldsOf(WrittenLines[k])
        IN /\ Len(fs) = 6
           /\ IsTagged(fs[2], <<"N", "a", "m", "e">>)
           /\ IsTagged(fs[3], <<"S", "u", "r", "n", "a", "m", "e">>)
           /\ IsTagged(fs[4], <<"P", "a", "t", "r", "o", "n", "y", "m", "i", "c">>)
           /\ IsTagged(fs[5], <<"C", "i", "t", "y">>)
           /\ IsTagged(fs[6], <<"C", "o", "u", "n", "t", "r", "y">>)
           /\ NumberAfter(fs[2], <<"N", "a", "m", "e">>) \in 1..1000000
           /\ NumberAfter(fs[3], <<"S", "u", "r", "n", "a", "m", "e">>) \in 1..1000000
           /\ NumberAfter(fs[4], <<"P", "a", "t", "r", "o", "n", "y", "m", "i", "c">>)
                  \in 1..1000000
           /\ NumberAfter(fs[5], <<"C", "i", "t", "y">>) \in 1..1000
           /\ NumberAfter(fs[6], <<"C", "o", "u", "n", "t", "r", "y">>) \in 1..100
           /\ NumberAfter(fs[2], <<"N", "a", "m", "e">>) = drawn[k][2]
           /\ NumberAfter(fs[3], <<"S", "u", "r", "n", "a", "m", "e">>) = drawn[k][3]
           /\ NumberAfter(fs[4], <<"P", "a", "t", "r", "o", "n", "y", "m", "i", "c">>)
                  = drawn[k][4]
           /\ NumberAfter(fs[5], <<"C", "i", "t", "y">>) = drawn[k][5]
           /\ NumberAfter(fs[6], <<"C", "o", "u", "n", "t", "r", "y">>) = drawn[k][6]

\* A completed run whose record drew the top of every range: the line ends
\* ...;Patronymic1000000;City1000;Country100.
C3_Witness ==
    /\ pc = "done"
    /\ drawn = <<<<8000, 1000000, 1000000, 1000000, 1000, 100>>>>
    /\ Len(TerminatedLines(disk)) = 1
    /\ FieldsOf(TerminatedLines(disk)[1])[5] = <<"C", "i", "t", "y", "1", "0", "0", "0">>
    /\ FieldsOf(TerminatedLines(disk)[1])[6]
           = <<"C", "o", "u", "n", "t", "r", "y", "1", "0", "0">>

\* C2: when a run completes, the file holds exactly record_count lines, none
\* torn, and every line has exactly 6 semicolon-separated fields.
C2_CompletedRunHasNLinesOfSixFields ==
    pc = "done" =>
        /\ Len(TerminatedLines(disk)) = record_count
        /\ TornTail(disk) = <<>>
        /\ \A k \in 1..Len(TerminatedLines(disk)) :
               Len(FieldsOf(TerminatedLines(disk)[k])) = 6

\* A completed run of two records that differ.
C2_Witness ==
    /\ pc = "done"
    /\ record_count = 2
    /\ Len(TerminatedLines(disk)) = 2
    /\ TerminatedLines(disk)[1] # TerminatedLines(disk)[2]

\* C4: once a run has opened the destination nothing of an earlier run is
\* left in it: the file holds text of this run's rows only, and after the
\* run completes it holds exactly this run's record_count rows.
C4_OnlyTheLatestRunRemains ==
    /\ (pc = "for" /\ writes = 0) => disk = <<>>
    /\ opens = 1 => IsPrefix(disk, TextOf(drawn))
    /\ pc = "done" =>
           /\ Len(drawn) = record_count
           /\ disk = TextOf(drawn)
           /\ Len(TerminatedLines(disk)) = record_count

\* A second run that replaced a non-empty file and completed with two rows.
C4_Witness ==
    /\ run = 2
    /\ overwrote
    /\ pc = "done"
    /\ record_count = 2
    /\ Len(TerminatedLines(disk)) = 2

\* C5: a run prints the completion message at most once, only after all
\* record_count rows were written and the file was closed, and never in a
\* run in which open, a write or the close failed.
C5_MessageOnlyAfterCleanClose ==
    /\ Len(stdout) <= 1
    /\ stdout # <<>> =>
           /\ pc = "done"
           /\ error = "none"
           /\ handle = "closed"
           /\ closes = 1
           /\ writes = record_count
           /\ i = record_count
           /\ buffer = <<>>
           /\ Len(TerminatedLines(disk)) = record_count
    /\ error # "none" => stdout = <<>>
    /\ pc = "aborted" => (error # "none" /\ stdout = <<>>)

\* The message is out after two rows and a close.
C5_Witness ==
    /\ stdout = <<CompletionMessage>>
    /\ record_count = 2
    /\ writes = 2
    /\ handle = "closed"

\* C6: a run acquires the file handle at most once and, when it did,
\* releases it exactly once on every exit path: no run ends with the handle
\* open, none releases it twice.
C6_HandleReleasedExactlyOnce ==
    /\ opens <= 1
    /\ closes <= opens
    /\ (handle = "none") <=> (opens = 0)
    /\ (handle = "open") <=> (opens = 1 /\ closes = 0)
    /\ (handle = "closed") <=> (opens = 1 /\ closes = 1)
    /\ Ended => (handle # "open" /\ closes = opens)
    /\ (Ended /\ error # "open") => closes = 1

\* A run aborted by a write failure in its second iteration, handle released.
C6_Witness ==
    /\ pc = "aborted"
    /\ error = "write"
    /\ i = 1
    /\ opens = 1
    /\ closes = 1
    /\ handle = "closed"

\* C7: with record_count = 0 the run calls the generator and writerow not at
\* all, leaves an empty file and, when no file operation fails, prints the
\* completion message.
C7_ZeroRecords ==
    record_count = 0 =>
        /\ drawn = <<>>
        /\ rec = NoRecord
        /\ writes = 0
        /\ buffer = <<>>
        /\ opens = 1 => disk = <<>>
        /\ (Ended /\ error = "none") =>
               (pc = "done" /\ disk = <<>> /\ stdout = <<CompletionMessage>>)

\* A completed run of zero records.
C7_Witness ==
    /\ record_count = 0
    /\ pc = "done"
    /\ opens = 1
    /\ stdout = <<CompletionMessage>>

\* 2000-01-01;Name42;Surname42;Patronymic42;City42;Country42
ExampleLine ==
    <<"2", "0", "0", "0", "-", "0", "1", "-", "0", "1", ";", "N",
      "a", "m", "e", "4", "2", ";", "S", "u", "r", "n", "a", "m",
      "e", "4", "2", ";", "P", "a", "t", "r", "o", "n", "y", "m",
      "i", "c", "4", "2", ";", "C", "i", "t", "y", "4", "2", ";",
      "C", "o", "u", "n", "t", "r", "y", "4", "2">>

\* C8: with record_count = 1, every name, city and country draw 42 and day
\* offset 0, the file holds exactly the one line
\* 2000-01-01;Name42;Surname42;Patronymic42;City42;Country42, nothing quoted.
C8_ExampleScenario ==
    (pc = "done" /\ record_count = 1 /\ drawn = <<<<0, 42, 42, 42, 42, 42>>>>) =>
        /\ TerminatedLines(disk) = <<ExampleLine>>
        /\ TornTail(disk) = <<>>
        /\ Len(disk) = Len(ExampleLine) + 2
        /\ \A k \in 1..Len(disk) : disk[k] # "\""

\* The example scenario, completed.
C8_Witness ==
    /\ pc = "done"
    /\ record_count = 1
    /\ drawn = <<<<0, 42, 42, 42, 42, 42>>>>
    /\ disk # <<>>

\* C9 as stated: after a write failure at iteration k ended the run, the rows
\* of iterations 0..k-1 are in the file and the file is a prefix of the rows
\* generated so far.
C9_EarlierRowsAreInTheFile ==
    (pc = "aborted" /\ error = "write") =>
        /\ IsPrefix(TextOf(SubSeq(drawn, 1, i)), disk)
        /\ IsPrefix(disk, TextOf(drawn))

\* Once writerow has raised, the script is leaving the with block or has
\* ended; nothing was generated, written or printed since.
C9_AfterWriteFailure ==
    error = "write" =>
        /\ pc \in {"exit", "aborted"}
        /\ Len(drawn) = i + 1
        /\ writes = i + 1
        /\ stdout = <<>>
        /\ IsPrefix(disk, TextOf(drawn))

\* No step of a run after its open() removes anything from the file, and
\* the only step after a write failure is the close that ends the run.
C9_NoRollback ==
    /\ (run' = run /\ pc # "open") => IsPrefix(disk, disk')
    /\ (error = "write" /\ run' = run) =>
           /\ error' = "write"
           /\ drawn' = drawn
           /\ writes' = writes
           /\ i' = i
           /\ pc' = "aborted"

\* C9 amended: a write failure at iteration k ends the run with no retry and
\* no further generator call or write; what had reached the file stays there
\* (no cleanup, no rollback) and the file is a character prefix of the text of
\* the rows generated so far.  Rows of iterations 0..k-1 still in the buffer
\* of the file object may be missing from it, and it may end inside a row.
C9_FailureKeepsWhatReachedTheFile ==
    []C9_AfterWriteFailure /\ [][C9_NoRollback]_vars

\* A run aborted by a write failure in its second iteration whose file holds
\* only the beginning of the first row.
C9_Witness ==
    /\ pc = "aborted"
    /\ error = "write"
    /\ i = 1
    /\ disk # <<>>
    /\ Len(disk) < Len(TextOf(SubSeq(drawn, 1, 1)))

\* C10: the generator runs at most record_count times, each record is handed
\* to writerow before the next is generated (writerow calls, and the rows it
\* accepted, number the records generated or one less), the file holds the rows in
\* generation order, and a completed run generated exactly record_count
\* records and wrote every one.
C10_GenerateThenWrite ==
    /\ Len(drawn) <= record_count
    /\ writes \in {Len(drawn), Len(drawn) - 1}
    /\ i \in {Len(drawn), Len(drawn) - 1}
    /\ i <= writes
    /\ pc = "write" => (writes = Len(drawn) - 1 /\ i = writes)
    /\ pc = "for" => (writes = Len(drawn) /\ i = writes)
    /\ handle = "open" => disk \o buffer = TextOf(SubSeq(drawn, 1, writes))
    /\ opens = 1 => IsPrefix(disk, TextOf(SubSeq(drawn, 1, writes)))
    /\ pc = "done" =>
           /\ Len(drawn) = record_count
           /\ writes = record_count
           /\ disk = TextOf(drawn)

\* The second record is generated and waits; only the first has been written.
C10_Witness ==
    /\ pc = "write"
    /\ Len(drawn) = 2
    /\ writes = 1
    /\ drawn[1] # drawn[2]
    /\ disk \o buffer = TextOf(<<drawn[1]>>)

=============================================================================
